---------------------------- MODULE Spec2Model ----------------------------
(***************************************************************************)
(* Model of src/app/page.tsx, the Home component of the video manager: its *)
(* React state (videos, searchQuery, selectedVideo, isUploading), the      *)
(* asynchronous import handler handleFileUpload with its duration probe,   *)
(* the store mutators deleteVideo / addTag / removeTag, and the pure       *)
(* functions generateAutoTags, filteredVideos and suggestTags.             *)
(*                                                                         *)
(* Strings are sequences of one-character strings, so that toLowerCase,    *)
(* includes and the year regular expression are computed, not assumed.     *)
(* An event handler runs to completion against the state of the last       *)
(* render; the continuation of an await runs when the probe's event fires. *)
(* agentMessage, size, uploadDate and type are presentation data that no   *)
(* operation reads back, and are left out.                                 *)
(***************************************************************************)
EXTENDS Integers, Sequences, FiniteSets, TLC

VARIABLES
    videos,         \* useState<VideoFile[]>([])            line 19
    searchQuery,    \* useState('')                         line 20
    selectedVideo,  \* useState<VideoFile | null>(null)     line 21
    isUploading,    \* useState(false)                      line 22
    uploads,        \* one record per handleFileUpload call: its files, loop index, newVideo, position
    objectURLs,     \* objectURLs[u] = number of URL.revokeObjectURL calls on the u-th created URL
    mounted         \* the component (and with it the store) is alive

vars == <<videos, searchQuery, selectedVideo, isUploading, uploads, objectURLs, mounted>>

NULL == [null |-> TRUE]

-----------------------------------------------------------------------------
(* Bounds of the model *)

MaxUrls == 2          \* files imported in one run of Spec, in one selection or several
MaxTags == 3          \* labels shown on the selection (addTag can repeat one without end)
MaxLibrary == 3       \* files imported in one run of SpecLibrary
MaxTokens == 2        \* tokens of a filename in SpecInfer

-----------------------------------------------------------------------------
(* String literals of the source *)

K_tutorial == <<"t", "u", "t", "o", "r", "i", "a", "l">>
K_howto == <<"h", "o", "w", "-", "t", "o">>
K_meeting == <<"m", "e", "e", "t", "i", "n", "g">>
K_call == <<"c", "a", "l", "l">>
K_presentation == <<"p", "r", "e", "s", "e", "n", "t", "a", "t", "i", "o", "n">>
K_demo == <<"d", "e", "m", "o">>
K_screen == <<"s", "c", "r", "e", "e", "n">>
K_recording == <<"r", "e", "c", "o", "r", "d", "i", "n", "g">>
K_webinar == <<"w", "e", "b", "i", "n", "a", "r">>
K_interview == <<"i", "n", "t", "e", "r", "v", "i", "e", "w">>
K_4k == <<"4", "k">>
K_1080p == <<"1", "0", "8", "0", "p">>
K_hd == <<"h", "d">>
K_final == <<"f", "i", "n", "a", "l">>
K_draft == <<"d", "r", "a", "f", "t">>
T_screen_recording == <<"s", "c", "r", "e", "e", "n", "-", "r", "e", "c", "o", "r", "d", "i", "n", "g">>
T_4K == <<"4", "K">>
T_HD == <<"H", "D">>
T_untagged == <<"u", "n", "t", "a", "g", "g", "e", "d">>
Unknown == <<"U", "n", "k", "n", "o", "w", "n">>

-----------------------------------------------------------------------------
(* String primitives of JavaScript used by the source *)

Digits == <<"0", "1", "2", "3", "4", "5", "6", "7", "8", "9">>

isDigit(c) == \E d \in 1..10 : Digits[d] = c

toLowerChar(c) ==
    CASE c = "A" -> "a" [] c = "B" -> "b" [] c = "C" -> "c" [] c = "D" -> "d"
      [] c = "E" -> "e" [] c = "F" -> "f" [] c = "G" -> "g" [] c = "H" -> "h"
      [] c = "I" -> "i" [] c = "J" -> "j" [] c = "K" -> "k" [] c = "L" -> "l"
      [] c = "M" -> "m" [] c = "N" -> "n" [] c = "O" -> "o" [] c = "P" -> "p"
      [] c = "Q" -> "q" [] c = "R" -> "r" [] c = "S" -> "s" [] c = "T" -> "t"
      [] c = "U" -> "u" [] c = "V" -> "v" [] c = "W" -> "w" [] c = "X" -> "x"
      [] c = "Y" -> "y" [] c = "Z" -> "z" [] OTHER -> c

\* String.prototype.toLowerCase
toLowerCase(s) == [i \in 1..Len(s) |-> toLowerChar(s[i])]

\* String.prototype.includes: some offset at which sub occurs in s
includes(s, sub) ==
    \E off \in 0..(Len(s) - Len(sub)) : \A k \in 1..Len(sub) : s[off + k] = sub[k]

\* Array.prototype.includes
arrayIncludes(arr, x) == \E i \in 1..Len(arr) : arr[i] = x

\* Array.prototype.flatMap(v => v.tags)
RECURSIVE flatMapTags(_)
flatMapTags(vs) == IF vs = <<>> THEN <<>> ELSE Head(vs).tags \o flatMapTags(Tail(vs))

\* Array.from(new Set(arr)): the distinct elements in first-insertion order
RECURSIVE arrayFromSet(_)
arrayFromSet(arr) ==
    IF arr = <<>> THEN <<>>
    ELSE LET init == arrayFromSet(SubSeq(arr, 1, Len(arr) - 1))
             last == arr[Len(arr)]
         IN  IF arrayIncludes(init, last) THEN init ELSE Append(init, last)

\* Array.prototype.slice(0, n)
slice0(arr, n) == SubSeq(arr, 1, IF Len(arr) < n THEN Len(arr) ELSE n)

\* Number.prototype.toString of a natural number
RECURSIVE numberToString(_)
numberToString(n) ==
    IF n < 10 THEN <<Digits[n + 1]>>
    ELSE numberToString(n \div 10) \o <<Digits[(n % 10) + 1]>>

\* String.prototype.padStart(2, '0')
padStart2(s) == IF Len(s) < 2 THEN <<"0">> \o s ELSE s


-----------------------------------------------------------------------------
(* generateAutoTags, lines 82-105 *)

\* tags.push(label) when the condition holds
pushIf(cond, label) == IF cond THEN <<label>> ELSE <<>>

\* filename.match(/20\d{2}/): the offsets at which "20" and two digits occur
yearOffsets(filename) ==
    {off \in 0..(Len(filename) - 4) :
        /\ filename[off + 1] = "2"
        /\ filename[off + 2] = "0"
        /\ isDigit(filename[off + 3])
        /\ isDigit(filename[off + 4])}

\* yearMatch: null, or yearMatch[0], the leftmost match
yearMatch(filename) ==
    LET offs == yearOffsets(filename)
    IN  IF offs = {} THEN NULL
        ELSE LET first == CHOOSE off \in offs : \A o \in offs : off <= o
             IN  [match |-> SubSeq(filename, first + 1, first + 4)]

\* Mutant: the year rule takes the last match instead of the first
generateAutoTags_LastYear(filename) ==
    LET lower == toLowerCase(filename)
        offs == yearOffsets(filename)
        last == CHOOSE off \in offs : \A o \in offs : o <= off
        tags ==
            pushIf(includes(lower, K_tutorial) \/ includes(lower, K_howto), K_tutorial)
         \o pushIf(includes(lower, K_meeting) \/ includes(lower, K_call), K_meeting)
         \o pushIf(includes(lower, K_presentation) \/ includes(lower, K_demo), K_presentation)
         \o pushIf(includes(lower, K_screen) \/ includes(lower, K_recording), T_screen_recording)
         \o pushIf(includes(lower, K_webinar), K_webinar)
         \o pushIf(includes(lower, K_interview), K_interview)
         \o (IF offs # {} THEN <<SubSeq(filename, last + 1, last + 4)>> ELSE <<>>)
         \o pushIf(includes(lower, K_4k), T_4K)
         \o pushIf(includes(lower, K_1080p) \/ includes(lower, K_hd), T_HD)
         \o pushIf(includes(lower, K_final), K_final)
         \o pushIf(includes(lower, K_draft), K_draft)
    IN  IF Len(tags) > 0 THEN tags ELSE <<T_untagged>>

\* Mutant: the result is returned without the "untagged" default
generateAutoTags_NoDefault(filename) ==
    LET lower == toLowerCase(filename)
        ym == yearMatch(filename)
    IN      pushIf(includes(lower, K_tutorial) \/ includes(lower, K_howto), K_tutorial)
         \o pushIf(includes(lower, K_meeting) \/ includes(lower, K_call), K_meeting)
         \o pushIf(includes(lower, K_presentation) \/ includes(lower, K_demo), K_presentation)
         \o pushIf(includes(lower, K_screen) \/ includes(lower, K_recording), T_screen_recording)
         \o pushIf(includes(lower, K_webinar), K_webinar)
         \o pushIf(includes(lower, K_interview), K_interview)
         \o (IF ym # NULL THEN <<ym.match>> ELSE <<>>)
         \o pushIf(includes(lower, K_4k), T_4K)
         \o pushIf(includes(lower, K_1080p) \/ includes(lower, K_hd), T_HD)
         \o pushIf(includes(lower, K_final), K_final)
         \o pushIf(includes(lower, K_draft), K_draft)

generateAutoTags(filename) ==
    LET lower == toLowerCase(filename)
        ym == yearMatch(filename)
        tags ==
            pushIf(includes(lower, K_tutorial) \/ includes(lower, K_howto), K_tutorial)
         \o pushIf(includes(lower, K_meeting) \/ includes(lower, K_call), K_meeting)
         \o pushIf(includes(lower, K_presentation) \/ includes(lower, K_demo), K_presentation)
         \o pushIf(includes(lower, K_screen) \/ includes(lower, K_recording), T_screen_recording)
         \o pushIf(includes(lower, K_webinar), K_webinar)
         \o pushIf(includes(lower, K_interview), K_interview)
         \o (IF ym # NULL THEN <<ym.match>> ELSE <<>>)
         \o pushIf(includes(lower, K_4k), T_4K)
         \o pushIf(includes(lower, K_1080p) \/ includes(lower, K_hd), T_HD)
         \o pushIf(includes(lower, K_final), K_final)
         \o pushIf(includes(lower, K_draft), K_draft)
    IN  IF Len(tags) > 0 THEN tags ELSE <<T_untagged>>

-----------------------------------------------------------------------------
(* getVideoDuration, lines 67-80 *)

\* video.duration is modelled in tenths of a second (65.4 s is 654)
formatDuration(tenths) ==
    LET minutes == tenths \div 600
        seconds == (tenths % 600) \div 10
    IN  numberToString(minutes) \o <<":">> \o padStart2(numberToString(seconds))

\* Mutant: the error handler rejects the promise instead of resolving it
getVideoDuration_RejectOnError(ev) ==
    IF ev.type = "loadedmetadata"
    THEN [settled |-> "resolved", value |-> formatDuration(ev.duration)]
    ELSE [settled |-> "rejected"]

\* The promise settles when the probe's video element fires its event: both
\* handlers call resolve, nothing calls reject.
getVideoDuration(ev) ==
    IF ev.type = "loadedmetadata"
    THEN [settled |-> "resolved", value |-> formatDuration(ev.duration)]
    ELSE [settled |-> "resolved", value |-> Unknown]

-----------------------------------------------------------------------------
(* Derived values of a render *)

matchesQuery(video, query) ==
    \/ includes(toLowerCase(video.name), toLowerCase(query))
    \/ \E i \in 1..Len(video.tags) : includes(toLowerCase(video.tags[i]), toLowerCase(query))

\* Mutant: the query is not lower-cased before the comparison
filteredVideos_CaseSensitiveQuery ==
    SelectSeq(videos, LAMBDA video :
        \/ includes(toLowerCase(video.name), searchQuery)
        \/ \E i \in 1..Len(video.tags) : includes(toLowerCase(video.tags[i]), searchQuery))

\* lines 142-145
filteredVideos == SelectSeq(videos, LAMBDA video : matchesQuery(video, searchQuery))

SuggestLimit == 5

\* Mutant: the labels are not passed through a Set
suggestTags_NoSet(video) ==
    slice0(SelectSeq(flatMapTags(videos), LAMBDA tag : ~arrayIncludes(video.tags, tag)), SuggestLimit)

\* lines 155-158
suggestTags(video) ==
    LET allTags == arrayFromSet(flatMapTags(videos))
    IN  slice0(SelectSeq(allTags, LAMBDA tag : ~arrayIncludes(video.tags, tag)), SuggestLimit)

-----------------------------------------------------------------------------
(* handleFileUpload, lines 26-65 *)

\* URL.createObjectURL returns a fresh URL: the next index of objectURLs.
\* Math.random().toString(36).substr(2, 9) is modelled as a fresh id (the same number).
newVideoFor(file, urls) ==
    [id |-> Len(urls) + 1, name |-> file, tags |-> generateAutoTags(file), url |-> Len(urls) + 1]

\* The store as setVideos leaves it: React drops a state update of an unmounted component
setVideosAppend(entry) == IF mounted THEN Append(videos, entry) ELSE videos

\* From the change event to the first await (or to the end, for an empty FileList)
handleFileUpload(files) ==
    /\ mounted
    /\ IF Len(files) = 0
       THEN /\ isUploading' = FALSE
            /\ uploads' = Append(uploads, [files |-> files, i |-> 0, newVideo |-> NULL, pc |-> "done"])
            /\ UNCHANGED objectURLs
       ELSE /\ isUploading' = TRUE
            /\ uploads' = Append(uploads, [files |-> files, i |-> 0,
                                           newVideo |-> newVideoFor(files[1], objectURLs),
                                           pc |-> "await"])
            /\ objectURLs' = Append(objectURLs, 0)
    /\ UNCHANGED <<videos, searchQuery, selectedVideo, mounted>>

\* The continuation of `await getVideoDuration(url)` in call k, when the probe fires ev:
\* lines 53-57, then the next iteration up to its await, or lines 59-64.
handleFileUploadResume(k, ev) ==
    /\ k \in 1..Len(uploads)
    /\ uploads[k].pc = "await"
    /\ LET up == uploads[k]
           res == getVideoDuration(ev)
       IN  IF res.settled = "rejected"
           THEN \* await throws: the async function ends with its promise rejected
                /\ uploads' = [uploads EXCEPT ![k] = [up EXCEPT !.pc = "threw", !.newVideo = NULL]]
                /\ UNCHANGED <<videos, isUploading, objectURLs>>
           ELSE LET entry == [id |-> up.newVideo.id, name |-> up.newVideo.name,
                              tags |-> up.newVideo.tags, url |-> up.newVideo.url,
                              duration |-> res.value]
                IN  /\ videos' = setVideosAppend(entry)
                    /\ IF up.i + 1 < Len(up.files)
                       THEN /\ uploads' = [uploads EXCEPT ![k] =
                                   [up EXCEPT !.i = up.i + 1,
                                              !.newVideo = newVideoFor(up.files[up.i + 2], objectURLs)]]
                            /\ objectURLs' = Append(objectURLs, 0)
                            /\ UNCHANGED isUploading
                       ELSE /\ uploads' = [uploads EXCEPT ![k] =
                                   [up EXCEPT !.i = up.i + 1, !.newVideo = NULL, !.pc = "done"]]
                            /\ isUploading' = (IF mounted THEN FALSE ELSE isUploading)
                            /\ UNCHANGED objectURLs
    /\ UNCHANGED <<searchQuery, selectedVideo, mounted>>

-----------------------------------------------------------------------------
(* deleteVideo, addTag, removeTag, lines 107-140 *)

\* videos.find(v => v.id === id): the index of the first such entry, 0 for undefined
findIndex(vs, id) ==
    IF \E i \in 1..Len(vs) : vs[i].id = id
    THEN CHOOSE i \in 1..Len(vs) : vs[i].id = id /\ \A j \in 1..(i - 1) : vs[j].id # id
    ELSE 0

deleteVideo(id) ==
    /\ mounted
    /\ LET at == findIndex(videos, id)
       IN  objectURLs' = IF at # 0
                         THEN [objectURLs EXCEPT ![videos[at].url] = @ + 1]
                         ELSE objectURLs
    /\ videos' = SelectSeq(videos, LAMBDA v : v.id # id)
    /\ selectedVideo' = IF selectedVideo # NULL /\ selectedVideo.id = id THEN NULL ELSE selectedVideo
    /\ UNCHANGED <<searchQuery, isUploading, uploads, mounted>>

\* Mutant: the label is appended without the includes test
addTagVideos_NoIncludesTest(vs, videoId, tag) ==
    [i \in 1..Len(vs) |->
        IF vs[i].id = videoId
        THEN [vs[i] EXCEPT !.tags = Append(@, tag)]
        ELSE vs[i]]

\* lines 120-124: the value handed to setVideos
addTagVideos(vs, videoId, tag) ==
    [i \in 1..Len(vs) |->
        IF vs[i].id = videoId /\ ~arrayIncludes(vs[i].tags, tag)
        THEN [vs[i] EXCEPT !.tags = Append(@, tag)]
        ELSE vs[i]]

addTag(videoId, tag) ==
    /\ mounted
    /\ videos' = addTagVideos(videos, videoId, tag)
    /\ selectedVideo' = IF selectedVideo # NULL /\ selectedVideo.id = videoId
                        THEN [selectedVideo EXCEPT !.tags = Append(@, tag)]
                        ELSE selectedVideo
    /\ UNCHANGED <<searchQuery, isUploading, uploads, objectURLs, mounted>>

\* lines 132-136: the value handed to setVideos
removeTagVideos(vs, videoId, tag) ==
    [i \in 1..Len(vs) |->
        IF vs[i].id = videoId
        THEN [vs[i] EXCEPT !.tags = SelectSeq(@, LAMBDA t : t # tag)]
        ELSE vs[i]]

removeTag(videoId, tag) ==
    /\ mounted
    /\ videos' = removeTagVideos(videos, videoId, tag)
    /\ selectedVideo' = IF selectedVideo # NULL /\ selectedVideo.id = videoId
                        THEN [selectedVideo EXCEPT !.tags = SelectSeq(@, LAMBDA t : t # tag)]
                        ELSE selectedVideo
    /\ UNCHANGED <<searchQuery, isUploading, uploads, objectURLs, mounted>>

-----------------------------------------------------------------------------
(* The remaining handlers of the render, and the end of the component *)

\* onClick={() => setSelectedVideo(video)} on a card of filteredVideos, line 242
setSelectedVideo(n) ==
    /\ mounted
    /\ n \in 1..Len(filteredVideos)
    /\ selectedVideo' = filteredVideos[n]
    /\ UNCHANGED <<videos, searchQuery, isUploading, uploads, objectURLs, mounted>>

\* onChange={(e) => setSearchQuery(e.target.value)}, line 215
setSearchQuery(q) ==
    /\ mounted
    /\ searchQuery' = q
    /\ UNCHANGED <<videos, selectedVideo, isUploading, uploads, objectURLs, mounted>>

\* The component unmounts. Home registers no effect and no cleanup (lines 18-24):
\* its state is dropped and no URL.revokeObjectURL runs.
unmount ==
    /\ mounted
    /\ mounted' = FALSE
    /\ UNCHANGED <<videos, searchQuery, selectedVideo, isUploading, uploads, objectURLs>>

-----------------------------------------------------------------------------
(* Inputs *)

FN_clip == <<"c", "l", "i", "p", ".", "m", "o", "v">>
FN_Final == <<"F", "i", "n", "a", "l", ".", "m", "p", "4">>
T_fav == <<"f", "a", "v">>

Filenames == {FN_clip, FN_Final}
\* A change event of the file input carries the files the user picked, at least one
Batches == UNION {[1..n -> Filenames] : n \in 1..MaxUrls}
TagInputs == {T_fav}
\* A probe fires loadedmetadata with the media's duration (65.4 s), or error
ProbeEvents == {[type |-> "loadedmetadata", duration |-> 654], [type |-> "error"]}

RECURSIVE filesOf(_)
filesOf(ups) == IF ups = <<>> THEN 0 ELSE Len(Head(ups).files) + filesOf(Tail(ups))

VideoIds(max) == 1..max

\* The selection's label list grows with every addTag: the model stops at MaxTags
selectionHasRoom(videoId) ==
    IF selectedVideo = NULL THEN TRUE
    ELSE IF selectedVideo.id # videoId THEN TRUE
    ELSE Len(selectedVideo.tags) < MaxTags

-----------------------------------------------------------------------------
(* Specifications *)

Init ==
    /\ videos = <<>>
    /\ searchQuery = <<>>
    /\ selectedVideo = NULL
    /\ isUploading = FALSE
    /\ uploads = <<>>
    /\ objectURLs = <<>>
    /\ mounted = TRUE

Import ==
    \E files \in Batches :
        /\ filesOf(uploads) + Len(files) <= MaxUrls
        /\ handleFileUpload(files)

Probe == \E k \in 1..MaxUrls : \E ev \in ProbeEvents : handleFileUploadResume(k, ev)

Delete == \E id \in VideoIds(MaxUrls) : deleteVideo(id)

AddTag == \E id \in VideoIds(MaxUrls) : \E tag \in TagInputs : selectionHasRoom(id) /\ addTag(id, tag)

RemoveInputs == TagInputs \cup {T_untagged}

RemoveTag == \E id \in VideoIds(MaxUrls) : \E tag \in RemoveInputs : removeTag(id, tag)

Select == \E n \in 1..MaxUrls : setSelectedVideo(n)

Next == Import \/ Probe \/ Delete \/ AddTag \/ RemoveTag \/ Select

\* The life of the mounted component: imports, their probes, and the edits of
\* the store and the selection. The search box is exercised in SpecLibrary.
Spec == Init /\ [][Next]_vars

\* The same, with the browser firing loadedmetadata or error on a pending probe:
\* while some probe is pending, one of them fires
FairSpec ==
    Init /\ [][Next]_vars /\ WF_vars(Probe)

NextTeardown == Next \/ unmount

\* The life of the component up to and past its unmount
SpecTeardown == Init /\ [][NextTeardown]_vars

-----------------------------------------------------------------------------
(* SpecLibrary: a library of files with many labels, imported one at a time, *)
(* then searched, selected and deleted. The labels are not edited here.      *)

FN_Rich == <<"T", "u", "t", "o", "r", "i", "a", "l", "_", "C", "A", "L", "L", "_", "d", "e", "m", "o", "_", "s", "c", "r", "e", "e", "n", "_", "2", "0", "2", "1", "_", "2", "0", "2", "2", ".", "m", "p", "4">>
FN_Quality == <<"W", "e", "b", "i", "n", "a", "r", "-", "C", "a", "l", "l", "-", "H", "D", "-", "4", "K", "-", "f", "i", "n", "a", "l">>
Q_MEET == <<"M", "E", "E", "T">>
Q_Clip == <<"C", "l", "i", "p">>
Q_zz == <<"z", "z">>

LibraryNames == {FN_Rich, FN_clip, FN_Quality}
LibraryQueries == {<<>>, Q_MEET, Q_Clip, Q_zz}

ImportLibrary ==
    \E file \in LibraryNames :
        /\ Len(uploads) < MaxLibrary
        /\ \A k \in 1..Len(uploads) : uploads[k].pc = "done"
        /\ handleFileUpload(<<file>>)

\* Every probe of the library loads: 5.0 s
LibraryEvents == {[type |-> "loadedmetadata", duration |-> 50]}

ProbeLibrary == \E k \in 1..MaxLibrary : \E ev \in LibraryEvents : handleFileUploadResume(k, ev)

DeleteLibrary == \E id \in VideoIds(MaxLibrary) : deleteVideo(id)

SelectLibrary == \E n \in 1..MaxLibrary : setSelectedVideo(n)

SearchLibrary == \E q \in LibraryQueries : setSearchQuery(q)

NextLibrary == ImportLibrary \/ ProbeLibrary \/ DeleteLibrary \/ SelectLibrary \/ SearchLibrary

SpecLibrary == Init /\ [][NextLibrary]_vars

-----------------------------------------------------------------------------
(* SpecInfer: one file is imported, its name made of up to MaxTokens tokens *)

TK_Tutorial == <<"T", "u", "t", "o", "r", "i", "a", "l">>
TK_MEETING == <<"M", "E", "E", "T", "I", "N", "G">>
TK_Presentation == <<"P", "r", "e", "s", "e", "n", "t", "a", "t", "i", "o", "n">>
TK_Screen == <<"S", "c", "r", "e", "e", "n">>
TK_1080P == <<"1", "0", "8", "0", "P">>
TK_FINAL == <<"F", "I", "N", "A", "L">>
TK_2021 == <<"2", "0", "2", "1">>
TK_2099 == <<"2", "0", "9", "9">>
TK_1999 == <<"1", "9", "9", "9">>
TK_20 == <<"2", "0">>
TK_x == <<"x", "_">>

Tokens ==
    {TK_Tutorial, K_howto, TK_MEETING, K_call, TK_Presentation, K_demo, TK_Screen,
     K_recording, K_webinar, K_interview, T_4K, TK_1080P, K_hd, TK_FINAL, K_draft,
     TK_2021, TK_2099, TK_1999, TK_20, TK_x}

RECURSIVE concat(_)
concat(parts) == IF parts = <<>> THEN <<>> ELSE Head(parts) \o concat(Tail(parts))

FilenameInputs == {concat(parts) : parts \in UNION {[1..n -> Tokens] : n \in 0..MaxTokens}}

ImportInfer == \E file \in FilenameInputs : uploads = <<>> /\ handleFileUpload(<<file>>)

ProbeInfer == \E ev \in ProbeEvents : handleFileUploadResume(1, ev)

NextInfer == ImportInfer \/ ProbeInfer

SpecInfer == Init /\ [][NextInfer]_vars

-----------------------------------------------------------------------------
(* Properties *)

NoRepeat(seq) == \A i, j \in 1..Len(seq) : i # j => seq[i] # seq[j]

Range(seq) == {seq[i] : i \in 1..Len(seq)}

\* s contains q as a substring, compared case-insensitively
ContainsCI(s, q) ==
    LET ls == toLowerCase(s)
        lq == toLowerCase(q)
    IN  \E i \in 1..(Len(s) - Len(q) + 1) : SubSeq(ls, i, i + Len(q) - 1) = lq

(* ---- C8 ---- *)

\* The rules of the Tag Inference Engine as (keywords, label) pairs
InferenceRules ==
    {[keys |-> {K_tutorial, K_howto}, label |-> K_tutorial],
     [keys |-> {K_meeting, K_call}, label |-> K_meeting],
     [keys |-> {K_presentation, K_demo}, label |-> K_presentation],
     [keys |-> {K_screen, K_recording}, label |-> T_screen_recording],
     [keys |-> {K_webinar}, label |-> K_webinar],
     [keys |-> {K_interview}, label |-> K_interview],
     [keys |-> {K_4k}, label |-> T_4K],
     [keys |-> {K_1080p, K_hd}, label |-> T_HD],
     [keys |-> {K_final}, label |-> K_final],
     [keys |-> {K_draft}, label |-> K_draft]}

IsYearAt(name, i) ==
    /\ i + 3 <= Len(name)
    /\ SubSeq(name, i, i + 1) = <<"2", "0">>
    /\ isDigit(name[i + 2])
    /\ isDigit(name[i + 3])

\* The labels of the rules that fire on name
FiredLabels(name) ==
    {r.label : r \in {q \in InferenceRules : \E key \in q.keys : ContainsCI(name, key)}}
    \cup {SubSeq(name, i, i + 3) : i \in {n \in 1..Len(name) :
                                            IsYearAt(name, n) /\ \A m \in 1..(n - 1) : ~IsYearAt(name, m)}}

InferredAsSpecified(name, tags) ==
    /\ Len(tags) >= 1
    /\ NoRepeat(tags)
    /\ Range(tags) = (IF FiredLabels(name) = {} THEN {T_untagged} ELSE FiredLabels(name))
    /\ (T_untagged \in Range(tags)) <=> (FiredLabels(name) = {})

\* C8: generateAutoTags yields exactly the labels of the rules that fire on the
\* filename (one year label, the first "20dd" match), none repeated, and the
\* single label "untagged" exactly when no rule fires. Checked on every
\* imported file: the one awaiting its duration and the ones in the store.
C8_InferenceExact ==
    /\ \A k \in 1..Len(uploads) :
          uploads[k].pc = "await" =>
              InferredAsSpecified(uploads[k].newVideo.name, uploads[k].newVideo.tags)
    /\ \A i \in 1..Len(videos) : InferredAsSpecified(videos[i].name, videos[i].tags)

\* A file whose name holds two years is in the store, labelled with the first one only
C8_Witness ==
    \E i \in 1..Len(videos) :
        /\ videos[i].name = TK_2099 \o TK_2021
        /\ videos[i].tags = <<TK_2099>>

(* ---- C7 ---- *)

MatchingIndexes == {i \in 1..Len(videos) : \/ ContainsCI(videos[i].name, searchQuery)
                                           \/ \E t \in Range(videos[i].tags) : ContainsCI(t, searchQuery)}

\* The n-th smallest element of a set of numbers
NthOf(S, n) == CHOOSE i \in S : Cardinality({m \in S : m <= i}) = n

\* C7: filteredVideos is the subsequence of the store, in store order, of the
\* entries whose name or one of whose labels contains the query, compared
\* case-insensitively; with the empty query it is the whole store.
C7_FilterExact ==
    /\ Len(filteredVideos) = Cardinality(MatchingIndexes)
    /\ \A n \in 1..Len(filteredVideos) : filteredVideos[n] = videos[NthOf(MatchingIndexes, n)]
    /\ (searchQuery = <<>> => filteredVideos = videos)

\* An upper-case query matches a label of the first and third entry, not the second
C7_Witness ==
    /\ searchQuery = Q_MEET
    /\ Len(videos) = 3
    /\ MatchingIndexes = {1, 3}
    /\ Len(filteredVideos) = 2

(* ---- C6 ---- *)

AllLabels == UNION {Range(videos[i].tags) : i \in 1..Len(videos)}

\* The place (entry, then position in the entry) where a label is first seen
FirstSeen(label) ==
    CHOOSE p \in UNION {{<<i, j>> : j \in 1..Len(videos[i].tags)} : i \in 1..Len(videos)} :
        /\ videos[p[1]].tags[p[2]] = label
        /\ \A i \in 1..Len(videos) : \A j \in 1..Len(videos[i].tags) :
              videos[i].tags[j] = label => (p[1] < i \/ (p[1] = i /\ p[2] <= j))

SeenBefore(a, b) ==
    LET p == FirstSeen(a)
        q == FirstSeen(b)
    IN  p[1] < q[1] \/ (p[1] = q[1] /\ p[2] < q[2])

SuggestedAsSpecified(target) ==
    LET result == suggestTags(target)
        candidates == {l \in AllLabels : l \notin Range(target.tags)}
    IN  /\ Len(result) <= SuggestLimit
        /\ NoRepeat(result)
        /\ \A n \in 1..Len(result) : result[n] \notin Range(target.tags)
        /\ Len(result) = (IF Cardinality(candidates) < SuggestLimit
                          THEN Cardinality(candidates) ELSE SuggestLimit)
        /\ \A n \in 1..Len(result) :
              /\ result[n] \in candidates
              /\ Cardinality({c \in candidates : SeenBefore(c, result[n])}) = n - 1

\* C6: for every target (each store entry, and the selection), suggestTags is
\* the first 5, or all when fewer, of the distinct labels of the store in
\* first-seen order that are not on the target: none on the target, at
\* most 5, none repeated.
C6_SuggestExact ==
    /\ \A i \in 1..Len(videos) : SuggestedAsSpecified(videos[i])
    /\ (selectedVideo # NULL => SuggestedAsSpecified(selectedVideo))

\* More than 5 candidates, one of them on two entries, and the result cut to 5
C6_Witness ==
    /\ selectedVideo # NULL
    /\ Len(videos) = 3
    /\ selectedVideo.tags = <<T_untagged>>
    /\ Cardinality(AllLabels \ {T_untagged}) > SuggestLimit
    /\ \E i, j \in 1..Len(videos) : i # j /\ K_meeting \in Range(videos[i].tags) \cap Range(videos[j].tags)
    /\ Len(suggestTags(selectedVideo)) = SuggestLimit

(* ---- C1 ---- *)

InStore(u) == \E i \in 1..Len(videos) : videos[i].url = u

InFlight(u) == \E k \in 1..Len(uploads) : uploads[k].pc = "await" /\ uploads[k].newVideo.url = u

\* C1: every object URL an import created is released exactly once, at the
\* removal of its entry or at teardown, whichever is first, never twice:
\* no URL is revoked twice, a URL whose entry is in the store or still to be
\* stored is not yet revoked, a URL whose entry was removed is revoked, and
\* after teardown every created URL is revoked.
C1_ReleasedExactlyOnce ==
    \A u \in 1..Len(objectURLs) :
        /\ objectURLs[u] <= 1
        /\ (mounted /\ (InStore(u) \/ InFlight(u)) => objectURLs[u] = 0)
        /\ (mounted /\ ~InStore(u) /\ ~InFlight(u) => objectURLs[u] = 1)
        /\ (~mounted => objectURLs[u] = 1)

(* ---- C3 ---- *)

\* C3: on import the entry is in the store, labelled and with no duration,
\* before its duration is resolved: the step that creates a file's object URL
\* (and starts its probe) leaves that file's entry in the store without a
\* duration and with its inferred labels.
C3_InsertedBeforeResolution ==
    [][\A u \in (Len(objectURLs) + 1)..Len(objectURLs') :
          \E i \in 1..Len(videos') :
              /\ videos'[i].url = u
              /\ "duration" \notin DOMAIN videos'[i]
              /\ Len(videos'[i].tags) >= 1]_vars

(* ---- C4 ---- *)

\* C4 as claimed: every entry of the store has at least one label
C4_AtLeastOneLabel == \A i \in 1..Len(videos) : Len(videos[i].tags) >= 1

\* C4, amended: an entry has at least one label when it enters the store, and
\* only removeTag takes an entry's last label away: after any step that is
\* not a removeTag, an entry without labels was in the store without labels
\* before the step.
C4_OnlyRemoveTagEmpties ==
    [][\/ \E id \in VideoIds(MaxUrls) : \E tag \in RemoveInputs : removeTag(id, tag)
       \/ \A i \in 1..Len(videos') :
             Len(videos'[i].tags) = 0 =>
                 \E j \in 1..Len(videos) : videos[j].id = videos'[i].id /\ Len(videos[j].tags) = 0]_vars

\* An entry emptied by removeTag next to an entry that addTag has labelled
C4_Witness ==
    \E i, j \in 1..Len(videos) :
        /\ Len(videos[i].tags) = 0
        /\ arrayIncludes(videos[j].tags, T_fav)

(* ---- C5 ---- *)

Count(seq, x) == Cardinality({i \in 1..Len(seq) : seq[i] = x})

\* C5: on the store addTag is idempotent (a second call with the same id and
\* label changes nothing, the label is on the entry once), a call with an id
\* that is not in the store changes nothing, and no entry holds a label twice.
C5_AddTagIdempotent ==
    /\ \A i \in 1..Len(videos) : NoRepeat(videos[i].tags)
    /\ \A id \in VideoIds(MaxUrls + 1) : \A tag \in {T_fav, T_untagged, K_final} :
          LET once == addTagVideos(videos, id, tag)
              twice == addTagVideos(once, id, tag)
          IN  /\ \A i \in 1..Len(videos) : twice[i] = once[i]
              /\ Len(once) = Len(videos)
              /\ \A i \in 1..Len(videos) :
                    IF videos[i].id = id
                    THEN /\ Count(once[i].tags, tag) = 1
                         /\ \A l \in Range(videos[i].tags) \ {tag} :
                               Count(once[i].tags, l) = Count(videos[i].tags, l)
                    ELSE once[i] = videos[i]

\* addTag was called twice with one label on the selected entry: the selection
\* shows the label twice, the store holds it once
C5_Witness ==
    /\ selectedVideo # NULL
    /\ Count(selectedVideo.tags, T_fav) = 2
    /\ \E i \in 1..Len(videos) :
          videos[i].id = selectedVideo.id /\ Count(videos[i].tags, T_fav) = 1

(* ---- C9 ---- *)

\* C9: the selection is null, or has the id of a store entry and that entry's
\* label list
C9_SelectionMirrorsStore ==
    selectedVideo # NULL =>
        \E i \in 1..Len(videos) :
            /\ videos[i].id = selectedVideo.id
            /\ videos[i].tags = selectedVideo.tags

(* ---- C10 ---- *)

Importing == \E k \in 1..Len(uploads) : uploads[k].pc = "await"

\* C10: while the component lives, isUploading is true whenever some
\* handleFileUpload call has started and has not finished its loop
C10_FlagWhileImporting == mounted /\ Importing => isUploading

(* ---- C2 ---- *)

\* C2: a failed probe never stops an import. Every step that resumes a call
\* appends the awaited file's entry to the store, with duration "Unknown" when
\* the probe fired error, and moves the call on by one file; a call is done
\* only past its last file; and whenever calls are pending, a state follows in
\* which every started call is done.
C2_ProbeFailureNeverInterrupts ==
    /\ [][\A k \in 1..Len(uploads) :
             /\ (uploads[k].pc = "await" /\ uploads'[k] # uploads[k]) =>
                   /\ Len(videos') = Len(videos) + 1
                   /\ \A i \in 1..Len(videos) : videos'[i] = videos[i]
                   /\ LET entry == videos'[Len(videos')]
                      IN  /\ entry.id = uploads[k].newVideo.id
                          /\ entry.name = uploads[k].files[uploads[k].i + 1]
                          /\ entry.tags = uploads[k].newVideo.tags
                          /\ handleFileUploadResume(k, [type |-> "error"]) => entry.duration = Unknown
                   /\ uploads'[k].i = uploads[k].i + 1
                   /\ uploads'[k].pc \in {"await", "done"}
             /\ (uploads'[k].pc = "done" => uploads'[k].i = Len(uploads'[k].files))]_vars
    /\ Importing ~> (\A k \in 1..Len(uploads) : uploads[k].pc = "done")

\* A call with two files is done, its first probe failed, and both entries are in the store
C2_Witness ==
    \E k \in 1..Len(uploads) :
        /\ uploads[k].pc = "done"
        /\ Len(uploads[k].files) = 2
        /\ \E i, j \in 1..Len(videos) :
              /\ i < j
              /\ videos[i].duration = Unknown
              /\ videos[i].name = uploads[k].files[1]
              /\ videos[j].name = uploads[k].files[2]
              /\ videos[j].id = videos[i].id + 1

=============================================================================
